---- MODULE Spec2Model ----
(***************************************************************************)
(* Interaction Model messages of matter-rs                                 *)
(* (matter/src/interaction_model/messages.rs): generic path addressing,    *)
(* the attribute / command paths, SubscribeReq::to_read_req and the        *)
(* list-mutation inference attr_list_write; and the parts-list encoder of   *)
(* the descriptor cluster (matter/src/data_model/system_model/descriptor.rs)*)
(***************************************************************************)
EXTENDS Integers, Sequences, FiniteSets, TLC

\* ------------------------------------------------------------------------
\* Bounds
\* ------------------------------------------------------------------------
\* longest payload array handed to attr_list_write
MaxLen == 3
\* payload scalars are 1..NumVals
NumVals == 2
\* the endpoints of a device tree have ids 0..MaxEndpt
MaxEndpt == 2

\* ------------------------------------------------------------------------
\* Option<T> and Nullable<T>
\* ------------------------------------------------------------------------
None == [some |-> FALSE, v |-> 0]
Some(x) == [some |-> TRUE, v |-> x]
Option(S) == {None} \cup {Some(x) : x \in S}

\* tlv::Nullable<u16>: Null | NotNull(v)
Null == [null |-> TRUE, n |-> 0]
NotNull(x) == [null |-> FALSE, n |-> x]

\* ------------------------------------------------------------------------
\* TLV elements (the payload of an attribute write)
\* ------------------------------------------------------------------------
\* a TLV element: its element type, its value (scalars), its members
\* (containers) and whether the container can be entered for iteration
TLVNull == [type |-> "null", val |-> 0, elems |-> <<>>, enterable |-> FALSE]
TLVUint(x) == [type |-> "uint", val |-> x, elems |-> <<>>, enterable |-> FALSE]
TLVStruct(es) == [type |-> "struct", val |-> 0, elems |-> es, enterable |-> TRUE]
TLVArray(es, ent) == [type |-> "array", val |-> 0, elems |-> es, enterable |-> ent]

\* the members a payload array is built from
Items == {TLVNull} \cup {TLVUint(x) : x \in 1..NumVals}
SeqUpTo(S, n) == UNION {[1..k -> S] : k \in 0..n}
\* the payloads attr_list_write is called with
Payloads ==
  Items \cup {TLVStruct(<<TLVUint(1)>>)}
        \cup {TLVArray(es, ent) : es \in SeqUpTo(Items, MaxLen), ent \in BOOLEAN}

\* TLVElement::null(): Ok iff the element is the null sentinel
IsNull(d) == d.type = "null"
\* TLVElement::confirm_array(): Ok iff the element's type is array
ConfirmArray(d) == d.type = "array"
\* TLVElement::enter(): the container iterator, None if it cannot be entered
Enter(d) == IF d.enterable THEN Some(d.elems) ELSE None

\* ------------------------------------------------------------------------
\* ib::ListOperation and the callback's results
\* ------------------------------------------------------------------------
AddItem == <<"AddItem">>
EditItem(index) == <<"EditItem", index>>
DeleteItem(index) == <<"DeleteItem", index>>
DeleteList == <<"DeleteList">>

\* Result<(), IMStatusCode>
Ok == [ok |-> TRUE, status |-> "Success"]
Err(s) == [ok |-> FALSE, status |-> s]
\* the status errors the callback rejects an operation with
StatusCodes == {"UnsupportedAccess", "ConstraintError"}
CallbackResults == {Ok} \cup {Err(s) : s \in StatusCodes}
\* Error::Invalid carried into the IMStatusCode result by the ? operator
InvalidStatus == "FromError(Invalid)"

\* AttrDetails.list_index: absent, present-but-null, present with a value
ListIndices == {None, Some(Null), Some(NotNull(0)), Some(NotNull(3))}

VARIABLES
  attr,     \* AttrDetails of the call: [list_index]
  data,     \* the payload TLVElement of the call
  pc,       \* position in attr_list_write: "call", "iter", "ret"
  it,       \* the container iterator: index of the next member
  calls,    \* the invocations of the callback f so far: [op, arg, ret]
  result,   \* what attr_list_write returned (meaningful at pc = "ret")
  gp,       \* the GenericPath the path operations are applied to
  applied,  \* the path operations applied to gp so far
  nw,       \* what gp.not_wildcard() returned
  iw,       \* what gp.is_wildcard() returned
  apath,    \* AttrPath::new(&gp)
  gp_back,  \* apath.to_gp()
  wire,     \* the TLV element a CmdPath is decoded from
  cp_src,   \* the operation that produced cp ("none" before the first)
  cp,       \* the Result<CmdPath, Error> of that operation
  sreq,     \* a SubscribeReq
  rreq,     \* the ReadReq that sreq.to_read_req() returned
  last_op,  \* the last operation on sreq ("none" before the first)
  endpoint_id, \* DescriptorCluster.endpoint_id
  tree,     \* the endpoint ids of the device tree, in iteration order
  enc_tag,  \* the tag encode_parts_list is called with
  dpc,      \* position in encode_parts_list
  ei,       \* for_each_endpoint: index of the next endpoint
  tw,       \* the calls made on the TLVWriter so far: [op, val, ret]
  readers,  \* read guards of data_model.node currently held
  reads     \* calls of data_model.node.read() so far

lwvars == <<attr, data, pc, it, calls, result>>
pathvars == <<gp, applied, nw, iw, apath, gp_back>>
cmdvars == <<wire, cp_src, cp>>
subvars == <<sreq, rreq, last_op>>
descvars == <<endpoint_id, tree, enc_tag, dpc, ei, tw, readers, reads>>
vars ==
  <<attr, data, pc, it, calls, result, gp, applied, nw, iw, apath, gp_back,
    wire, cp_src, cp, sreq, rreq, last_op,
    endpoint_id, tree, enc_tag, dpc, ei, tw, readers, reads>>

\* one invocation of the callback f(op, arg) that returned ret
Invoke(op, arg, ret) == [op |-> op, arg |-> arg, ret |-> ret]

\* HasIndex taking a present-but-null index for an index
HasIndex_NullIsIndex(a) == a.list_index.some

\* line 410: if let Some(Nullable::NotNull(index)) = attr.list_index
HasIndex(a) == a.list_index.some /\ ~a.list_index.v.null

\* ItemOp without the null test of the payload
ItemOp_AlwaysEdit(index, d) == EditItem(index)

\* lines 413-418: the operation of the indexed branch
ItemOp(index, d) == IF IsNull(d) THEN DeleteItem(index) ELSE EditItem(index)

\* lines 410-418: list index is valid, modify item or delete item
WriteItem ==
  /\ pc = "call"
  /\ HasIndex(attr)
  /\ \E r \in CallbackResults :
       /\ calls' = Append(calls, Invoke(ItemOp(attr.list_index.v.n, data), data, r))
       /\ result' = r
  /\ pc' = "ret"
  /\ UNCHANGED <<attr, data, it>>
  /\ UNCHANGED <<pathvars, cmdvars, subvars, descvars>>

\* AfterDeleteList iterating the payload without checking enter()
AfterDeleteList_NoEnterCheck(r, d) ==
  IF ~r.ok THEN <<"ret", r>>
  ELSE IF Len(d.elems) = 0 THEN <<"ret", Ok>>
  ELSE <<"iter", Ok>>

\* lines 422-425 and the loop's entry: what follows f(DeleteList, data)
\* returning r: <<pc, result>>
AfterDeleteList(r, d) ==
  IF ~r.ok THEN <<"ret", r>>
  ELSE IF ~Enter(d).some THEN <<"ret", Err(InvalidStatus)>>
  ELSE IF Len(Enter(d).v) = 0 THEN <<"ret", Ok>>
  ELSE <<"iter", Ok>>

\* lines 419-425: data is a list, first delete the whole list
ReplaceList ==
  /\ pc = "call"
  /\ ~HasIndex(attr)
  /\ ConfirmArray(data)
  /\ \E r \in CallbackResults :
       /\ calls' = Append(calls, Invoke(DeleteList, data, r))
       /\ pc' = AfterDeleteList(r, data)[1]
       /\ result' = AfterDeleteList(r, data)[2]
  /\ it' = 1
  /\ UNCHANGED <<attr, data>>
  /\ UNCHANGED <<pathvars, cmdvars, subvars, descvars>>

\* AfterAddItem stepping over the member that follows an accepted one
AfterAddItem_SkipNext(r, i, n) ==
  IF ~r.ok THEN <<"ret", r, i>>
  ELSE IF i + 1 >= n THEN <<"ret", Ok, i>>
  ELSE <<"iter", Ok, i + 2>>

\* AfterAddItem dropping the callback's error instead of returning it
AfterAddItem_IgnoreReject(r, i, n) ==
  IF i = n THEN <<"ret", Ok, i>>
  ELSE <<"iter", Ok, i + 1>>

\* lines 426-429: what follows f(AddItem, &d) returning r for member i of
\* n: <<pc, result, it>>
AfterAddItem(r, i, n) ==
  IF ~r.ok THEN <<"ret", r, i>>
  ELSE IF i = n THEN <<"ret", Ok, i>>
  ELSE <<"iter", Ok, i + 1>>

\* lines 426-429: the data is added item by item
AddNextItem ==
  /\ pc = "iter"
  /\ it <= Len(data.elems)
  /\ \E r \in CallbackResults :
       /\ calls' = Append(calls, Invoke(AddItem, data.elems[it], r))
       /\ pc' = AfterAddItem(r, it, Len(data.elems))[1]
       /\ result' = AfterAddItem(r, it, Len(data.elems))[2]
       /\ it' = AfterAddItem(r, it, Len(data.elems))[3]
  /\ UNCHANGED <<attr, data>>
  /\ UNCHANGED <<pathvars, cmdvars, subvars, descvars>>

\* lines 430-433: data is not a list, this must be an add operation
AddOneItem ==
  /\ pc = "call"
  /\ ~HasIndex(attr)
  /\ ~ConfirmArray(data)
  /\ \E r \in CallbackResults :
       /\ calls' = Append(calls, Invoke(AddItem, data, r))
       /\ result' = r
  /\ pc' = "ret"
  /\ UNCHANGED <<attr, data, it>>
  /\ UNCHANGED <<pathvars, cmdvars, subvars, descvars>>

\* ------------------------------------------------------------------------
\* GenericPath and AttrPath
\* ------------------------------------------------------------------------
\* 2^16
U16 == 65536

\* the ids the paths are built from: EndptId is u16, ClusterId and the
\* leaf are u32 (leaves up to 2^31 - 1, the largest integer TLC has)
EndptIds == {0, 1}
ClusterIds == {6, 29}
Leaves == {0, 3, U16 - 1, U16, U16 + 3, 2147483647}

\* lines 35-41: GenericPath::new
GenericPathNew(endpoint, cluster, leaf) ==
  [endpoint |-> endpoint, cluster |-> cluster, leaf |-> leaf]

GenericPaths ==
  {GenericPathNew(e, c, l) :
     e \in Option(EndptIds), c \in Option(ClusterIds), l \in Option(Leaves)}

\* Result<(EndptId, ClusterId, u32), Error>
PathOk(e, c, l) == [ok |-> TRUE, triple |-> <<e, c, l>>, err |-> "None"]
PathErr(e) == [ok |-> FALSE, triple |-> <<>>, err |-> e]

\* not_wildcard deciding on the endpoint and the cluster only
not_wildcard_IgnoreLeaf(p) ==
  IF p.endpoint.some /\ p.cluster.some
    THEN PathOk(p.endpoint.v, p.cluster.v, p.leaf.v)
    ELSE PathErr("Invalid")

\* lines 43-53: GenericPath::not_wildcard
not_wildcard(p) ==
  IF p.endpoint.some /\ p.cluster.some /\ p.leaf.some
    THEN PathOk(p.endpoint.v, p.cluster.v, p.leaf.v)
    ELSE PathErr("Invalid")

\* lines 54-64: GenericPath::is_wildcard
is_wildcard(p) == ~(p.endpoint.some /\ p.cluster.some /\ p.leaf.some)

\* x as u16 saturating at the largest u16 instead of wrapping
AsU16_Saturate(x) == IF x < U16 THEN x ELSE U16 - 1

\* x as u16 of a u32 x: the low 16 bits
AsU16(x) == x % U16
\* x as u32 of a u16 x: zero extension, the value is kept
AsU32(x) == x

\* AttrPath::new losing the cluster of the path
AttrPathNew_DropCluster(path) ==
  [tag_compression |-> None, node |-> None,
   endpoint |-> path.endpoint, cluster |-> None,
   attr |-> IF path.leaf.some THEN Some(AsU16(path.leaf.v)) ELSE None, list_index |-> None]

\* lines 463-471: AttrPath::new
AttrPathNew(path) ==
  [tag_compression |-> None, node |-> None,
   endpoint |-> path.endpoint, cluster |-> path.cluster,
   attr |-> IF path.leaf.some THEN Some(AsU16(path.leaf.v)) ELSE None, list_index |-> None]

\* lines 473-475: AttrPath::to_gp
to_gp(a) ==
  GenericPathNew(a.endpoint, a.cluster,
                 IF a.attr.some THEN Some(AsU32(a.attr.v)) ELSE None)

\* gp.not_wildcard()
CallNotWildcard ==
  /\ nw' = not_wildcard(gp)
  /\ applied' = applied \cup {"not_wildcard"}
  /\ UNCHANGED <<gp, iw, apath, gp_back>>
  /\ UNCHANGED <<lwvars, cmdvars, subvars, descvars>>

\* gp.is_wildcard()
CallIsWildcard ==
  /\ iw' = is_wildcard(gp)
  /\ applied' = applied \cup {"is_wildcard"}
  /\ UNCHANGED <<gp, nw, apath, gp_back>>
  /\ UNCHANGED <<lwvars, cmdvars, subvars, descvars>>

\* AttrPath::new(&gp)
CallAttrPathNew ==
  /\ apath' = AttrPathNew(gp)
  /\ applied' = applied \cup {"new"}
  /\ UNCHANGED <<gp, nw, iw, gp_back>>
  /\ UNCHANGED <<lwvars, cmdvars, subvars, descvars>>

\* apath.to_gp(), on the AttrPath that AttrPath::new returned
CallToGp ==
  /\ "new" \in applied
  /\ gp_back' = to_gp(apath)
  /\ applied' = applied \cup {"to_gp"}
  /\ UNCHANGED <<gp, nw, iw, apath>>
  /\ UNCHANGED <<lwvars, cmdvars, subvars, descvars>>

\* ------------------------------------------------------------------------
\* CmdPath
\* ------------------------------------------------------------------------
\* command ids (u16) handed to the constructors
CmdIds == {0, 2, U16 - 1}
\* the payloads (EncodeValue) of a command response
CmdPayloads == {1, 2}

\* Result<CmdPath, Error>
CmdOk(c) == [ok |-> TRUE, val |-> c, err |-> "None"]
CmdErr(e) ==
  [ok |-> FALSE, val |-> [path |-> GenericPathNew(None, None, None)], err |-> e]

\* lines 479-482: #[derive(Default)] of CmdPath and of GenericPath (line 26)
CmdPathDefault == [path |-> GenericPathNew(None, None, None)]

\* lines 498-512: CmdPath::new
CmdPathNew(endpoint, cluster, command) ==
  [path |-> [endpoint |-> endpoint, cluster |-> cluster,
             leaf |-> IF command.some THEN Some(AsU32(command.v)) ELSE None]]

\* lines 484-496: cmd_path_ib!(endpoint, cluster, command)
cmd_path_ib(endpoint, cluster, command) ==
  [path |-> [endpoint |-> Some(endpoint), cluster |-> Some(cluster),
             leaf |-> Some(AsU32(command))]]

\* lines 324-328: CmdData::new
CmdDataNew(path, d) == [path |-> path, data |-> d]

\* lines 279-289: InvResp::cmd_new
cmd_new(endpoint, cluster, cmd, d) ==
  [tag |-> "Cmd",
   cmd |-> CmdDataNew(CmdPathNew(Some(endpoint), Some(cluster), Some(cmd)), d)]

\* the elements a path is decoded from: a TLV list with each of the three
\* context-tagged members present or not, or an element that is no list
WireList(e, c, l) == [list |-> TRUE, endpoint |-> e, cluster |-> c, leaf |-> l]
WireOther == [list |-> FALSE, endpoint |-> None, cluster |-> None, leaf |-> None]
Wires ==
  {WireOther} \cup
  {WireList(e, c, l) :
     e \in Option(EndptIds), c \in Option(ClusterIds), l \in Option(Leaves)}

\* GenericPath::from_tlv, derived (line 26, datatype = "list"): the members
\* of a list by context tag, a decoding error for anything else
GenericPathFromTLV(w) ==
  IF w.list
    THEN [ok |-> TRUE, val |-> GenericPathNew(w.endpoint, w.cluster, w.leaf),
          err |-> "None"]
    ELSE [ok |-> FALSE, val |-> GenericPathNew(None, None, None),
          err |-> "InvalidData"]

\* from_tlv accepting a path without a leaf
CmdPathFromTLV_NoLeafCheck(w) ==
  IF ~GenericPathFromTLV(w).ok THEN CmdErr(GenericPathFromTLV(w).err)
  ELSE CmdOk([path |-> GenericPathFromTLV(w).val])

\* lines 514-527: impl FromTLV for CmdPath
CmdPathFromTLV(w) ==
  IF ~GenericPathFromTLV(w).ok THEN CmdErr(GenericPathFromTLV(w).err)
  ELSE IF ~GenericPathFromTLV(w).val.leaf.some THEN CmdErr("CommandNotFound")
  ELSE CmdOk([path |-> GenericPathFromTLV(w).val])

\* CmdPath::new(endpoint, cluster, command)
CallCmdPathNew ==
  /\ \E e \in Option(EndptIds), c \in Option(ClusterIds), m \in Option(CmdIds) :
       cp' = CmdOk(CmdPathNew(e, c, m))
  /\ cp_src' = "new"
  /\ UNCHANGED <<wire, lwvars, pathvars, subvars, descvars>>

\* CmdPath::default()
CallCmdPathDefault ==
  /\ cp' = CmdOk(CmdPathDefault)
  /\ cp_src' = "default"
  /\ UNCHANGED <<wire, lwvars, pathvars, subvars, descvars>>

\* cmd_path_ib!(endpoint, cluster, command)
CallCmdPathIb ==
  /\ \E e \in EndptIds, c \in ClusterIds, m \in CmdIds :
       cp' = CmdOk(cmd_path_ib(e, c, m))
  /\ cp_src' = "cmd_path_ib"
  /\ UNCHANGED <<wire, lwvars, pathvars, subvars, descvars>>

\* InvResp::cmd_new(endpoint, cluster, cmd, data): the path of its CmdData
CallCmdNew ==
  /\ \E e \in EndptIds, c \in ClusterIds, m \in CmdIds, d \in CmdPayloads :
       cp' = CmdOk(cmd_new(e, c, m, d).cmd.path)
  /\ cp_src' = "cmd_new"
  /\ UNCHANGED <<wire, lwvars, pathvars, subvars, descvars>>

\* CmdPath::from_tlv(&wire)
CallCmdPathFromTLV ==
  /\ cp' = CmdPathFromTLV(wire)
  /\ cp_src' = "from_tlv"
  /\ UNCHANGED <<wire, lwvars, pathvars, subvars, descvars>>

\* ------------------------------------------------------------------------
\* SubscribeReq and ReadReq
\* ------------------------------------------------------------------------
\* the arrays a request carries (TLVArray), as the sequences of their
\* members' ids
AttrReqArrays == {<<1>>, <<1, 2>>}
EventReqArrays == {<<1>>}
EventFilterArrays == {<<1>>}
DataVerArrays == {<<1>>, <<2, 1>>}
\* the interval bounds (u16) of a subscription
Intervals == {0, U16 - 1}

\* lines 82-93: SubscribeReq, as decoded from the wire
SubscribeReqs ==
  [keep_subs : BOOLEAN, min_int_floor : Intervals, max_int_ceil : Intervals,
   attr_requests : Option(AttrReqArrays),
   event_requests : Option(EventReqArrays),
   event_filters : Option(EventFilterArrays),
   dummy : Option(BOOLEAN),
   fabric_filtered : BOOLEAN,
   dataver_filters : Option(DataVerArrays)]

\* lines 96-103: SubscribeReq::new
SubscribeReqNew(fabric_filtered, min_int_floor, max_int_ceil) ==
  [keep_subs |-> FALSE, min_int_floor |-> min_int_floor,
   max_int_ceil |-> max_int_ceil,
   attr_requests |-> None, event_requests |-> None, event_filters |-> None,
   dummy |-> None, fabric_filtered |-> fabric_filtered,
   dataver_filters |-> None]

\* lines 105-108: SubscribeReq::set_attr_requests
set_attr_requests(s, requests) == [s EXCEPT !.attr_requests = Some(requests)]

\* lines 188-193: ReadReq::new
ReadReqNew(fabric_filtered) ==
  [attr_requests |-> None, event_requests |-> None, event_filters |-> None,
   fabric_filtered |-> fabric_filtered, dataver_filters |-> None]

\* to_read_req taking the fabric filter flag from keep_subs
to_read_req_KeepSubs(s) ==
  [attr_requests |-> s.attr_requests,
   event_requests |-> s.event_requests,
   event_filters |-> s.event_filters,
   fabric_filtered |-> s.keep_subs,
   dataver_filters |-> s.dataver_filters]

\* lines 110-118: SubscribeReq::to_read_req
to_read_req(s) ==
  [attr_requests |-> s.attr_requests,
   event_requests |-> s.event_requests,
   event_filters |-> s.event_filters,
   fabric_filtered |-> s.fabric_filtered,
   dataver_filters |-> s.dataver_filters]

\* sreq = SubscribeReq::new(fabric_filtered, min_int_floor, max_int_ceil)
CallSubscribeReqNew ==
  /\ \E f \in BOOLEAN, mn \in Intervals, mx \in Intervals :
       sreq' = SubscribeReqNew(f, mn, mx)
  /\ last_op' = "new"
  /\ UNCHANGED <<rreq, lwvars, pathvars, cmdvars, descvars>>

\* sreq = sreq.set_attr_requests(requests)
CallSetAttrRequests ==
  /\ \E a \in AttrReqArrays : sreq' = set_attr_requests(sreq, a)
  /\ last_op' = "set_attr_requests"
  /\ UNCHANGED <<rreq, lwvars, pathvars, cmdvars, descvars>>

\* rreq = sreq.to_read_req()
CallToReadReq ==
  /\ rreq' = to_read_req(sreq)
  /\ last_op' = "to_read_req"
  /\ UNCHANGED <<sreq, lwvars, pathvars, cmdvars, descvars>>

\* ------------------------------------------------------------------------
\* DescriptorCluster::encode_parts_list
\* ------------------------------------------------------------------------
\* the tags the encoder is handed by its caller
TagTypes == {"Anonymous", "Context"}

\* the device trees: each endpoint id belongs to one endpoint
DeviceTrees ==
  {t \in SeqUpTo(0..MaxEndpt, MaxEndpt + 1) :
     \A i, j \in 1..Len(t) : i # j => t[i] # t[j]}

\* one call on the TLVWriter; its result ret is dropped by `let _ =`
TwCall(op, val, ret) == [op |-> op, val |-> val, ret |-> ret]

\* lines 113-117: the path handed to for_each_endpoint
PartsListPath == GenericPathNew(None, None, None)

\* Node::for_each_endpoint: the resolved path it yields for the endpoint id
ResolvedPath(path, id) == [path EXCEPT !.endpoint = Some(id)]

\* line 119: if self.endpoint_id == 0
OnRootEndpoint(id) == id = 0

\* the closure writing every endpoint, endpoint 0 included
PartsListItem_KeepRoot(current_path) ==
  IF current_path.endpoint.some THEN <<current_path.endpoint.v>> ELSE <<>>

\* lines 122-129: the ids the closure writes for one yielded path
PartsListItem(current_path) ==
  IF current_path.endpoint.some /\ current_path.endpoint.v # 0
    THEN <<current_path.endpoint.v>>
    ELSE <<>>

\* the writer calls of the closure for the ids ws, returning r
ItemCalls(ws, r) == [j \in 1..Len(ws) |-> TwCall("u16", ws[j], r)]

\* line 118: tw.start_array(tag); line 119: the branch on the endpoint
PlStartArray ==
  /\ dpc = "start"
  /\ \E r \in BOOLEAN : tw' = Append(tw, TwCall("start_array", enc_tag, r))
  /\ dpc' = IF OnRootEndpoint(endpoint_id) THEN "lock" ELSE "end"
  /\ UNCHANGED <<endpoint_id, tree, enc_tag, ei, readers, reads>>
  /\ UNCHANGED <<lwvars, pathvars, cmdvars, subvars>>

\* line 121: let dm = self.data_model.node.read().unwrap()
PlReadLock ==
  /\ dpc = "lock"
  /\ readers' = readers + 1
  /\ reads' = reads + 1
  /\ ei' = 1
  /\ dpc' = "iter"
  /\ UNCHANGED <<endpoint_id, tree, enc_tag, tw>>
  /\ UNCHANGED <<lwvars, pathvars, cmdvars, subvars>>

\* lines 122-129: the closure, called for the next endpoint of the tree
PlVisitEndpoint ==
  /\ dpc = "iter"
  /\ ei <= Len(tree)
  /\ \E r \in BOOLEAN :
       tw' = tw \o ItemCalls(PartsListItem(ResolvedPath(PartsListPath, tree[ei])), r)
  /\ ei' = ei + 1
  /\ UNCHANGED <<endpoint_id, tree, enc_tag, dpc, readers, reads>>
  /\ UNCHANGED <<lwvars, pathvars, cmdvars, subvars>>

\* lines 129-130: for_each_endpoint is through, the guard dm is dropped
PlUnlock ==
  /\ dpc = "iter"
  /\ ei > Len(tree)
  /\ readers' = readers - 1
  /\ dpc' = "end"
  /\ UNCHANGED <<endpoint_id, tree, enc_tag, ei, tw, reads>>
  /\ UNCHANGED <<lwvars, pathvars, cmdvars, subvars>>

\* line 131: tw.end_container()
PlEndContainer ==
  /\ dpc = "end"
  /\ \E r \in BOOLEAN : tw' = Append(tw, TwCall("end_container", 0, r))
  /\ dpc' = "done"
  /\ UNCHANGED <<endpoint_id, tree, enc_tag, ei, readers, reads>>
  /\ UNCHANGED <<lwvars, pathvars, cmdvars, subvars>>

\* ------------------------------------------------------------------------
\* Specifications
\* ------------------------------------------------------------------------
\* no call of attr_list_write is under way
ListIdle ==
  /\ attr = [list_index |-> None]
  /\ data = TLVNull
  /\ pc = "ret"
  /\ it = 1
  /\ calls = <<>>
  /\ result = Ok

\* no path operation is applied
PathIdle ==
  /\ gp = GenericPathNew(None, None, None)
  /\ applied = {}
  /\ nw = PathErr("Invalid")
  /\ iw = TRUE
  /\ apath = AttrPathNew(GenericPathNew(None, None, None))
  /\ gp_back = GenericPathNew(None, None, None)

\* no CmdPath is built or decoded
CmdIdle ==
  /\ wire = WireOther
  /\ cp_src = "none"
  /\ cp = CmdOk(CmdPathDefault)

\* no SubscribeReq is projected
SubIdle ==
  /\ sreq = SubscribeReqNew(FALSE, 0, 0)
  /\ rreq = ReadReqNew(FALSE)
  /\ last_op = "none"

\* encode_parts_list is not called
DescIdle ==
  /\ endpoint_id = 0
  /\ tree = <<>>
  /\ enc_tag = "Anonymous"
  /\ dpc = "done"
  /\ ei = 1
  /\ tw = <<>>
  /\ readers = 0
  /\ reads = 0

\* attr_list_write(attr, data, f) is called with any index and payload
ListInit ==
  /\ attr \in {[list_index |-> li] : li \in ListIndices}
  /\ data \in Payloads
  /\ pc = "call"
  /\ it = 1
  /\ calls = <<>>
  /\ result = Ok
  /\ PathIdle /\ CmdIdle /\ SubIdle /\ DescIdle

ListNext == WriteItem \/ ReplaceList \/ AddNextItem \/ AddOneItem

SpecList == ListInit /\ [][ListNext]_vars

\* the path operations are applied to any GenericPath
PathInit ==
  /\ gp \in GenericPaths
  /\ applied = {}
  /\ nw = PathErr("Invalid")
  /\ iw = TRUE
  /\ apath = AttrPathNew(GenericPathNew(None, None, None))
  /\ gp_back = GenericPathNew(None, None, None)
  /\ ListIdle /\ CmdIdle /\ SubIdle /\ DescIdle

PathNext == CallNotWildcard \/ CallIsWildcard \/ CallAttrPathNew \/ CallToGp

SpecPath == PathInit /\ [][PathNext]_vars

\* CmdPaths are built, and decoded from any element
CmdInit ==
  /\ wire \in Wires
  /\ cp_src = "none"
  /\ cp = CmdOk(CmdPathDefault)
  /\ ListIdle /\ PathIdle /\ SubIdle /\ DescIdle

CmdNext ==
  \/ CallCmdPathNew
  \/ CallCmdPathDefault
  \/ CallCmdPathIb
  \/ CallCmdNew
  \/ CallCmdPathFromTLV

SpecCmd == CmdInit /\ [][CmdNext]_vars

\* any decoded SubscribeReq, or one built with new and set_attr_requests
SubInit ==
  /\ sreq \in SubscribeReqs
  /\ rreq = ReadReqNew(FALSE)
  /\ last_op = "none"
  /\ ListIdle /\ PathIdle /\ CmdIdle /\ DescIdle

SubNext == CallSubscribeReqNew \/ CallSetAttrRequests \/ CallToReadReq

SpecSub == SubInit /\ [][SubNext]_vars

\* encode_parts_list(tag, tw) is called on a descriptor cluster of any
\* endpoint, over any device tree, with an empty writer
DescInit ==
  /\ endpoint_id \in 0..MaxEndpt
  /\ tree \in DeviceTrees
  /\ enc_tag \in TagTypes
  /\ dpc = "start"
  /\ ei = 1
  /\ tw = <<>>
  /\ readers = 0
  /\ reads = 0
  /\ ListIdle /\ PathIdle /\ CmdIdle /\ SubIdle

DescNext ==
  \/ PlStartArray
  \/ PlReadLock
  \/ PlVisitEndpoint
  \/ PlUnlock
  \/ PlEndContainer

SpecDesc == DescInit /\ [][DescNext]_vars

\* ------------------------------------------------------------------------
\* Properties of attr_list_write
\* ------------------------------------------------------------------------
\* every invocation of the callback so far was accepted
AllAccepted == \A j \in 1..Len(calls) : calls[j].ret.ok
\* the whole list is addressed with a well-formed array payload
WholeListArray ==
  /\ ~(attr.list_index.some /\ ~attr.list_index.v.null)
  /\ data.type = "array"
  /\ data.enterable
\* the invocations an array replace makes when nothing is rejected
ExpectedReplace ==
  <<[op |-> <<"DeleteList">>, arg |-> data, ret |-> Ok]>> \o
  [j \in 1..Len(data.elems) |->
     [op |-> <<"AddItem">>, arg |-> data.elems[j], ret |-> Ok]]

\* C1: with no non-null list index, an array payload [e1..en] and a callback
\* that accepts everything, the callback sees DeleteList, AddItem(e1), ...,
\* AddItem(en) in that order (n+1 invocations, nothing skipped, duplicated
\* or reordered) and the procedure returns success.
C1_ReplaceSequence ==
  (WholeListArray /\ AllAccepted) =>
     /\ Len(calls) <= Len(ExpectedReplace)
     /\ calls = SubSeq(ExpectedReplace, 1, Len(calls))
     /\ pc = "ret" => (calls = ExpectedReplace /\ result = Ok)
     /\ pc = "iter" => it = Len(calls)

C1_Witness ==
  /\ WholeListArray /\ AllAccepted
  /\ attr.list_index = Some(Null)
  /\ Len(data.elems) = 3
  /\ data.elems[1] # data.elems[2] /\ data.elems[2] # data.elems[3]
  /\ pc = "ret"
  /\ Len(calls) = 4

\* C2: when the callback rejects an operation the procedure stops at once:
\* the rejected invocation is the last one and the procedure has returned
\* that same status error. Rejecting the second member of [a,b,c] leaves
\* exactly DeleteList and AddItem(a) accepted and AddItem(c) never invoked;
\* rejecting DeleteList leaves no AddItem invoked.
C2_RejectStops ==
  /\ \A j \in 1..Len(calls) :
       ~calls[j].ret.ok =>
          /\ j = Len(calls)
          /\ pc = "ret"
          /\ ~result.ok
          /\ result = calls[j].ret
          /\ result.status \in StatusCodes
  /\ (WholeListArray /\ Len(data.elems) = 3 /\ Len(calls) >= 3
        /\ ~calls[3].ret.ok) =>
          /\ Len(calls) = 3
          /\ calls[1] = [op |-> <<"DeleteList">>, arg |-> data, ret |-> Ok]
          /\ calls[2] = [op |-> <<"AddItem">>, arg |-> data.elems[1], ret |-> Ok]
          /\ calls[3].op = <<"AddItem">> /\ calls[3].arg = data.elems[2]
  /\ (Len(calls) >= 1 /\ calls[1].op = <<"DeleteList">> /\ ~calls[1].ret.ok) =>
          \A j \in 1..Len(calls) : calls[j].op # <<"AddItem">>

C2_Witness ==
  /\ WholeListArray
  /\ Len(data.elems) = 3
  /\ Len(calls) = 3
  /\ calls[1].ret.ok /\ calls[2].ret.ok /\ ~calls[3].ret.ok
  /\ pc = "ret"
  /\ result = calls[3].ret

\* C3: with a list index present and non-null (value i) the callback is
\* invoked exactly once whatever the payload's shape: DeleteItem(i) for the
\* null sentinel, EditItem(i) carrying the payload otherwise; no DeleteList,
\* no AddItem, no iteration even over an array payload; the result is the
\* callback's result.
C3_IndexedWrite ==
  (attr.list_index.some /\ ~attr.list_index.v.null) =>
     /\ pc # "iter"
     /\ pc = "call" => calls = <<>>
     /\ pc = "ret" =>
          /\ Len(calls) = 1
          /\ calls[1].op = IF data.type = "null"
                             THEN <<"DeleteItem", attr.list_index.v.n>>
                             ELSE <<"EditItem", attr.list_index.v.n>>
          /\ calls[1].arg = data
          /\ result = calls[1].ret

C3_Witness ==
  /\ attr.list_index = Some(NotNull(3))
  /\ data.type = "array" /\ Len(data.elems) = 2
  /\ pc = "ret"
  /\ calls[1].op = <<"EditItem", 3>>

\* C4: with no non-null list index and a payload that is not an array
\* (scalar, struct or the null sentinel) the callback is invoked exactly
\* once, with AddItem carrying that payload; DeleteList is never issued and
\* the result is the callback's result.
C4_SingleAdd ==
  (~(attr.list_index.some /\ ~attr.list_index.v.null) /\ data.type # "array") =>
     /\ pc # "iter"
     /\ pc = "call" => calls = <<>>
     /\ pc = "ret" =>
          calls = <<[op |-> <<"AddItem">>, arg |-> data, ret |-> result]>>

C4_Witness ==
  /\ attr.list_index = Some(Null)
  /\ data.type = "null"
  /\ pc = "ret"
  /\ Len(calls) = 1

\* C10: in the whole-list branch, a payload that passes the array check
\* but cannot be entered for iteration makes the procedure fail, and the
\* only invocation the callback has seen is the single DeleteList: no
\* AddItem is issued.
C10_MalformedArray ==
  (~(attr.list_index.some /\ ~attr.list_index.v.null)
     /\ data.type = "array" /\ ~data.enterable) =>
     /\ pc # "iter"
     /\ pc = "call" => calls = <<>>
     /\ pc = "ret" =>
          /\ Len(calls) = 1
          /\ calls[1].op = <<"DeleteList">>
          /\ ~result.ok
          /\ calls[1].ret.ok => result = Err(InvalidStatus)

C10_Witness ==
  /\ attr.list_index = None
  /\ data.type = "array" /\ ~data.enterable /\ Len(data.elems) = 2
  /\ pc = "ret"
  /\ calls[1].ret.ok
  /\ result = Err(InvalidStatus)

\* ------------------------------------------------------------------------
\* Properties of GenericPath and AttrPath
\* ------------------------------------------------------------------------
\* C5: for every GenericPath, is_wildcard() == !not_wildcard().is_ok();
\* is_wildcard() is true iff at least one component is absent, and
\* not_wildcard() returns the concrete triple exactly when all three are
\* present and fails with Invalid otherwise.
C5_WildcardDuality ==
  /\ {"not_wildcard", "is_wildcard"} \subseteq applied => iw = ~nw.ok
  /\ "is_wildcard" \in applied =>
       iw = (~gp.endpoint.some \/ ~gp.cluster.some \/ ~gp.leaf.some)
  /\ "not_wildcard" \in applied =>
       IF gp.endpoint.some /\ gp.cluster.some /\ gp.leaf.some
         THEN nw.ok /\ nw.triple = <<gp.endpoint.v, gp.cluster.v, gp.leaf.v>>
         ELSE ~nw.ok /\ nw.err = "Invalid"

C5_Witness ==
  /\ {"not_wildcard", "is_wildcard"} \subseteq applied
  /\ gp.endpoint.some /\ gp.cluster.some /\ ~gp.leaf.some
  /\ iw /\ ~nw.ok

\* C6: AttrPath::new(gp).to_gp() == gp for every GenericPath gp whose leaf
\* is absent or fits in 16 bits, whatever endpoint and cluster are;
\* AttrPath::new leaves tag_compression, node and list_index unset.
C6_AttrPathRoundTrip ==
  /\ "new" \in applied =>
       /\ ~apath.tag_compression.some
       /\ ~apath.node.some
       /\ ~apath.list_index.some
  /\ ("to_gp" \in applied /\ (~gp.leaf.some \/ gp.leaf.v < 65536)) =>
       gp_back = gp

C6_Witness ==
  /\ "to_gp" \in applied
  /\ ~gp.endpoint.some /\ gp.cluster.some
  /\ gp.leaf.some /\ gp.leaf.v = 65535
  /\ gp_back = gp

\* ------------------------------------------------------------------------
\* Properties of CmdPath
\* ------------------------------------------------------------------------
\* C7: a CmdPath's leaf (command id) is never wildcard: every CmdPath
\* obtained from CmdPath::new, CmdPath::default, cmd_path_ib!,
\* InvResp::cmd_new or a successful decode has its leaf present.
C7_LeafNeverWildcard ==
  (cp_src # "none" /\ cp.ok) => cp.val.path.leaf.some

\* C8: decoding a CmdPath whose leaf is absent fails with CommandNotFound
\* whatever endpoint and cluster are; decoding a well-formed path whose
\* leaf is present succeeds and yields the same endpoint, cluster and leaf.
C8_DecodeLeaf ==
  (cp_src = "from_tlv" /\ wire.list) =>
     IF wire.leaf.some
       THEN /\ cp.ok
            /\ cp.val.path.endpoint = wire.endpoint
            /\ cp.val.path.cluster = wire.cluster
            /\ cp.val.path.leaf = wire.leaf
       ELSE ~cp.ok /\ cp.err = "CommandNotFound"

C8_Witness ==
  /\ cp_src = "from_tlv"
  /\ wire.list
  /\ ~wire.endpoint.some /\ wire.cluster.some /\ ~wire.leaf.some
  /\ ~cp.ok /\ cp.err = "CommandNotFound"

\* ------------------------------------------------------------------------
\* Properties of SubscribeReq::to_read_req
\* ------------------------------------------------------------------------
\* the SubscribeReqs that differ from s in the subscription-only fields only
SameReadFields(s) ==
  {[s EXCEPT !.keep_subs = k, !.min_int_floor = mn, !.max_int_ceil = mx,
             !.dummy = d] :
     k \in BOOLEAN, mn \in Intervals, mx \in Intervals, d \in Option(BOOLEAN)}

\* what C9 says of the ReadReq that the last call of to_read_req returned
C9_Projected ==
  last_op = "to_read_req" =>
     /\ rreq.attr_requests = sreq.attr_requests
     /\ rreq.event_requests = sreq.event_requests
     /\ rreq.event_filters = sreq.event_filters
     /\ rreq.fabric_filtered = sreq.fabric_filtered
     /\ rreq.dataver_filters = sreq.dataver_filters
     /\ DOMAIN rreq = {"attr_requests", "event_requests", "event_filters",
                       "fabric_filtered", "dataver_filters"}
     /\ \A t \in SameReadFields(sreq) : to_read_req(t) = rreq

\* C9: to_read_req() returns a ReadReq whose attr_requests, event_requests,
\* event_filters, fabric_filtered and dataver_filters are those of the
\* SubscribeReq; requests that differ only in keep_subs, min_int_floor,
\* max_int_ceil or the reserved slot project to the same ReadReq; the
\* SubscribeReq is left unchanged by the call.
C9_ToReadReq ==
  /\ []C9_Projected
  /\ [][last_op' = "to_read_req" => sreq' = sreq]_vars

C9_Witness ==
  /\ last_op = "to_read_req"
  /\ sreq.keep_subs /\ ~sreq.fabric_filtered
  /\ sreq.min_int_floor # sreq.max_int_ceil
  /\ sreq.attr_requests = Some(<<1, 2>>)
  /\ sreq.dataver_filters.some /\ sreq.event_requests.some
  /\ sreq.dummy.some
  /\ rreq.attr_requests = Some(<<1, 2>>)

\* ------------------------------------------------------------------------
\* Narrowing of the leaf by AttrPath::new
\* ------------------------------------------------------------------------
\* C11: the narrowing done by AttrPath::new is truncation, never rejection:
\* for a GenericPath with leaf L (also L >= 2^16) AttrPath::new gives
\* attr = L mod 2^16, so to_gp() gives leaf L mod 2^16 with the endpoint and
\* cluster of the path; two paths whose leaves differ by a multiple of 2^16
\* (endpoint and cluster equal) give the same AttrPath.
C11_LeafTruncated ==
  gp.leaf.some =>
     /\ "new" \in applied =>
          /\ apath.attr.some
          /\ apath.attr.v = gp.leaf.v % 65536
          /\ apath.endpoint = gp.endpoint
          /\ apath.cluster = gp.cluster
          /\ \A q \in GenericPaths :
               (/\ q.endpoint = gp.endpoint
                /\ q.cluster = gp.cluster
                /\ q.leaf.some
                /\ q.leaf.v % 65536 = gp.leaf.v % 65536) =>
                  AttrPathNew(q) = apath
     /\ "to_gp" \in applied =>
          /\ gp_back.leaf.some
          /\ gp_back.leaf.v = gp.leaf.v % 65536
          /\ gp_back.endpoint = gp.endpoint
          /\ gp_back.cluster = gp.cluster

C11_Witness ==
  /\ "to_gp" \in applied
  /\ gp.leaf = Some(65539)
  /\ gp.endpoint.some /\ ~gp.cluster.some
  /\ apath.attr = Some(3)
  /\ gp_back.leaf = Some(3)
  /\ apath = AttrPathNew([gp EXCEPT !.leaf = Some(3)])

\* ------------------------------------------------------------------------
\* Properties of DescriptorCluster::encode_parts_list
\* ------------------------------------------------------------------------
\* the values of the u16 calls made on the writer, in order
WrittenIds ==
  LET U == SelectSeq(tw, LAMBDA w : w.op = "u16")
  IN  [j \in 1..Len(U) |-> U[j].val]
\* how many calls of op were made on the writer
CountOp(op) == Cardinality({j \in 1..Len(tw) : tw[j].op = op})
\* the ids of the tree's endpoints other than endpoint 0, in tree order
NonRootIds == SelectSeq(tree, LAMBDA id : id # 0)

\* C12: the parts-list encoder writes exactly one array, started once and
\* ended once: on endpoint 0 the array holds the id of every endpoint of
\* the device tree except endpoint 0, each once and in the tree's order; on
\* any other endpoint the array is empty and the device tree is not read
\* (no read lock is taken).
C12_PartsList ==
  /\ CountOp("start_array") <= 1 /\ CountOp("end_container") <= 1
  /\ dpc # "start" =>
       tw[1] = [op |-> "start_array", val |-> enc_tag, ret |-> tw[1].ret]
  /\ CountOp("end_container") = 1 => dpc = "done"
  /\ dpc = "done" =>
       /\ CountOp("start_array") = 1 /\ CountOp("end_container") = 1
       /\ tw[Len(tw)].op = "end_container"
       /\ Len(tw) = Len(WrittenIds) + 2
       /\ readers = 0
       /\ IF endpoint_id = 0
            THEN /\ WrittenIds = NonRootIds
                 /\ \A i, j \in 1..Len(WrittenIds) :
                      i # j => WrittenIds[i] # WrittenIds[j]
                 /\ reads = 1
            ELSE WrittenIds = <<>>
  /\ endpoint_id # 0 => (reads = 0 /\ readers = 0 /\ dpc \notin {"lock", "iter"})

C12_Witness ==
  /\ dpc = "done"
  /\ endpoint_id = 0
  /\ tree = <<0, 1, 2>>
  /\ WrittenIds = <<1, 2>>
  /\ Len(tw) = 4
  /\ reads = 1 /\ readers = 0

====
